---------------------------- MODULE Spec2Model ----------------------------
(***************************************************************************)
(* A model of alphapept's matching module (nbs/09_matching.ipynb):         *)
(* dataset alignment (calculate_distance, calib_table, align,              *)
(* calculate_deltas, align_files, align_datasets) and match-between-runs   *)
(* (get_probability, match_datasets).                                      *)
(*                                                                         *)
(* Numbers.  The code computes in floating point.  The model computes in   *)
(* exact rationals <<n, d>> (d > 0, lowest terms); the float NaN is the    *)
(* pair <<0, 0>>.  Measured values (m/z, retention time) are positive, so  *)
(* no infinity arises.                                                     *)
(***************************************************************************)
EXTENDS Integers, Sequences, FiniteSets, TLC

(***************************************************************************)
(* Rational arithmetic (numpy float arithmetic, made exact)                *)
(***************************************************************************)
Abs(a) == IF a < 0 THEN -a ELSE a

RECURSIVE GCD(_, _)
GCD(a, b) == IF b = 0 THEN a ELSE GCD(b, a % b)

NaN == <<0, 0>>

IsNaN(r) == r[2] = 0

\* n/d in lowest terms with a positive denominator; x/0 is NaN
Norm(n, d) ==
    IF d = 0 THEN NaN
    ELSE LET g == GCD(Abs(n), Abs(d))
             s == IF d < 0 THEN -1 ELSE 1
         IN  <<(s * n) \div g, (s * d) \div g>>

R(n) == <<n, 1>>

\* a and b brought to their least common denominator: the two numerators
\* and the denominator
Common(a, b) ==
    LET g == GCD(a[2], b[2])
    IN  <<a[1] * (b[2] \div g), b[1] * (a[2] \div g), (a[2] \div g) * b[2]>>

RAdd(a, b) == IF IsNaN(a) \/ IsNaN(b) THEN NaN
              ELSE Norm(Common(a, b)[1] + Common(a, b)[2], Common(a, b)[3])

RSub(a, b) == IF IsNaN(a) \/ IsNaN(b) THEN NaN
              ELSE Norm(Common(a, b)[1] - Common(a, b)[2], Common(a, b)[3])

RMul(a, b) == IF IsNaN(a) \/ IsNaN(b) THEN NaN
              ELSE Norm(a[1] * b[1], a[2] * b[2])

RDiv(a, b) == IF IsNaN(a) \/ IsNaN(b) THEN NaN
              ELSE Norm(a[1] * b[2], a[2] * b[1])

\* a < b; every comparison with NaN is false
RLess(a, b) == /\ ~IsNaN(a)
               /\ ~IsNaN(b)
               /\ Common(a, b)[1] < Common(a, b)[2]

RLeq(a, b) == /\ ~IsNaN(a)
              /\ ~IsNaN(b)
              /\ Common(a, b)[1] <= Common(a, b)[2]

RECURSIVE RSum(_)
RSum(s) == IF s = <<>> THEN R(0) ELSE RAdd(Head(s), RSum(Tail(s)))

\* numpy mean: the mean of no values is NaN
RMean(s) == IF s = <<>> THEN NaN ELSE RDiv(RSum(s), R(Len(s)))

(***************************************************************************)
(* Sequence helpers                                                        *)
(***************************************************************************)
RECURSIVE SetToSeq(_)
SetToSeq(S) == IF S = {} THEN <<>>
               ELSE LET x == CHOOSE y \in S : TRUE
                    IN  <<x>> \o SetToSeq(S \ {x})

RECURSIVE DropNaN(_)
DropNaN(s) == IF s = <<>> THEN <<>>
              ELSE IF IsNaN(Head(s)) THEN DropNaN(Tail(s))
              ELSE <<Head(s)>> \o DropNaN(Tail(s))

RECURSIVE Insert(_, _)
Insert(x, s) == IF s = <<>> THEN <<x>>
                ELSE IF RLeq(x, Head(s)) THEN <<x>> \o s
                ELSE <<Head(s)>> \o Insert(x, Tail(s))

RECURSIVE Sort(_)
Sort(s) == IF s = <<>> THEN <<>> ELSE Insert(Head(s), Sort(Tail(s)))

\* np.nanmedian: NaN entries are ignored; NaN when nothing is left
NanMedian(s) ==
    LET v == Sort(DropNaN(s))
        n == Len(v)
    IN  IF n = 0 THEN NaN
        ELSE IF n % 2 = 1 THEN v[(n + 1) \div 2]
        ELSE RDiv(RAdd(v[n \div 2], v[n \div 2 + 1]), R(2))

(***************************************************************************)
(* calculate_distance.  A table indexed by precursor is a function from    *)
(* its index to rows; a row is a function from column names to values.     *)
(* offset_dict is the ordered sequence of its (col, mode) items.           *)
(***************************************************************************)
_calculate_deltas_abs(values1, values2) ==
    NanMedian([k \in 1..Len(values1) |-> RSub(values1[k], values2[k])])

_calculate_deltas_rel(values1, values2) ==
    NanMedian([k \in 1..Len(values1) |->
        RMul(RDiv(RSub(values1[k], values2[k]), RAdd(values1[k], values2[k])), R(2))])

\* the keys both tables hold
shared_precursors(table_1, table_2) == (DOMAIN table_1) \cap (DOMAIN table_2)

\* the deltas of the columns of offset_dict from position j on
RECURSIVE DistanceDeltas(_, _, _, _, _, _)
DistanceDeltas(table_1, table_2, keys, offset_dict, calib, j) ==
    IF j > Len(offset_dict) THEN [status |-> "ok", deltas |-> <<>>]
    ELSE
    LET col  == offset_dict[j].col
        col_ == IF calib THEN col \o "_calib" ELSE col
        mode == offset_dict[j].mode
        v1   == [k \in 1..Len(keys) |-> table_1[keys[k]][col_]]
        v2   == [k \in 1..Len(keys) |-> table_2[keys[k]][col_]]
        rest == DistanceDeltas(table_1, table_2, keys, offset_dict, calib, j + 1)
    IN  IF mode \notin {"absolute", "relative"}
        THEN [status |-> "NotImplementedError", deltas |-> <<>>]
        ELSE IF rest.status # "ok" THEN rest
        ELSE [status |-> "ok",
              deltas |-> <<IF mode = "absolute"
                           THEN _calculate_deltas_abs(v1, v2)
                           ELSE _calculate_deltas_rel(v1, v2)>> \o rest.deltas]

\* a variant that reports the size of the first table as the weight
CalculateDistanceWeightOfFirst(table_1, table_2, offset_dict, calib) ==
    LET keys == SetToSeq(shared_precursors(table_1, table_2))
        r    == DistanceDeltas(table_1, table_2, keys, offset_dict, calib, 1)
    IN  [status |-> r.status, deltas |-> r.deltas,
         weight |-> IF r.status = "ok" THEN Cardinality(DOMAIN table_1) ELSE 0]

calculate_distance(table_1, table_2, offset_dict, calib) ==
    LET keys == SetToSeq(shared_precursors(table_1, table_2))
        r    == DistanceDeltas(table_1, table_2, keys, offset_dict, calib, 1)
    IN  [status |-> r.status, deltas |-> r.deltas,
         weight |-> IF r.status = "ok" THEN Len(keys) ELSE 0]

(***************************************************************************)
(* calib_table.  A data frame is [columns, rows]: rows is the sequence of  *)
(* its rows, each a function from the columns to values.  delta is the     *)
(* run's row of the alignment table: a function from the alignment's       *)
(* columns to offsets.  The table is changed in place, so an error leaves  *)
(* the columns written before it.                                          *)
(***************************************************************************)
SetColumn(table, name, values) ==
    [columns |-> table.columns \cup {name},
     rows    |-> [k \in 1..Len(table.rows) |->
                    [c \in table.columns \cup {name} |->
                        IF c = name THEN values[k] ELSE table.rows[k][c]]]]

\* a variant that shifts the calibrated column once the table has one
CalibAbsoluteOfCalibrated(table, delta, col, col_) ==
    IF col_ \notin table.columns \/ col \notin DOMAIN delta
    THEN [status |-> "KeyError", table |-> table]
    ELSE [status |-> "ok",
          table  |-> SetColumn(table, col \o "_calib",
                        [k \in 1..Len(table.rows) |->
                            RSub(table.rows[k][IF (col \o "_calib") \in table.columns
                                               THEN col \o "_calib" ELSE col_],
                                 delta[col])])]

\* table[col+'_calib'] = table[col_]-delta[col]
CalibAbsolute(table, delta, col, col_) ==
    IF col_ \notin table.columns \/ col \notin DOMAIN delta
    THEN [status |-> "KeyError", table |-> table]
    ELSE [status |-> "ok",
          table  |-> SetColumn(table, col \o "_calib",
                        [k \in 1..Len(table.rows) |->
                            RSub(table.rows[k][col_], delta[col])])]

\* table[col+'_calib'] = (1-delta[col_])*table[col]
CalibRelative(table, delta, col, col_) ==
    IF col_ \notin DOMAIN delta \/ col \notin table.columns
    THEN [status |-> "KeyError", table |-> table]
    ELSE [status |-> "ok",
          table  |-> SetColumn(table, col \o "_calib",
                        [k \in 1..Len(table.rows) |->
                            RMul(RSub(R(1), delta[col_]), table.rows[k][col])])]

\* a variant that skips a dimension whose mode it does not know
RECURSIVE CalibFromKnownModes(_, _, _, _)
CalibFromKnownModes(table, delta, offset_dict, j) ==
    IF j > Len(offset_dict) THEN [status |-> "ok", table |-> table]
    ELSE
    LET col  == offset_dict[j].col
        mode == offset_dict[j].mode
        col_ == IF col \notin table.columns /\ (col \o "_apex") \in table.columns
                THEN col \o "_apex" ELSE col
        step == IF mode = "absolute" THEN CalibAbsolute(table, delta, col, col_)
                ELSE IF mode = "relative" THEN CalibRelative(table, delta, col, col_)
                ELSE [status |-> "ok", table |-> table]
    IN  IF step.status # "ok" THEN step
        ELSE CalibFromKnownModes(step.table, delta, offset_dict, j + 1)

RECURSIVE CalibFrom(_, _, _, _)
CalibFrom(table, delta, offset_dict, j) ==
    IF j > Len(offset_dict) THEN [status |-> "ok", table |-> table]
    ELSE
    LET col  == offset_dict[j].col
        mode == offset_dict[j].mode
        col_ == IF col \notin table.columns /\ (col \o "_apex") \in table.columns
                THEN col \o "_apex" ELSE col
        step == IF mode = "absolute" THEN CalibAbsolute(table, delta, col, col_)
                ELSE IF mode = "relative" THEN CalibRelative(table, delta, col, col_)
                ELSE [status |-> "NotImplementedError", table |-> table]
    IN  IF step.status # "ok" THEN step
        ELSE CalibFrom(step.table, delta, offset_dict, j + 1)

calib_table(table, delta, offset_dict) == CalibFrom(table, delta, offset_dict, 1)

(***************************************************************************)
(* align.  deltas is the sequence of the rows of the distance table: each  *)
(* [combo |-> <<start, end>>, dists |-> one distance per column]; weights  *)
(* is the sequence of the rows' weights, or <<>> for None.  The fit is     *)
(* sklearn's LinearRegression(fit_intercept=False): the least-squares      *)
(* solution of matrix * x = deltas, of minimum norm when several exist.    *)
(***************************************************************************)
IndexOf(filenames, f) == CHOOSE k \in 1..Len(filenames) : filenames[k] = f

\* a variant whose slice also covers the column of the pair's second run
DesignRowInclusive(filenames, combo) ==
    LET start_idx == IndexOf(filenames, combo[1]) - 1
        end_idx   == IndexOf(filenames, combo[2]) - 1
    IN  [c \in 1..(Len(filenames) - 1) |->
            IF start_idx <= c - 1 /\ c - 1 <= end_idx THEN 1 ELSE 0]

\* lines = np.zeros(len(filenames)-1); lines[start_idx:end_idx] = 1
DesignRow(filenames, combo) ==
    LET start_idx == IndexOf(filenames, combo[1]) - 1
        end_idx   == IndexOf(filenames, combo[2]) - 1
    IN  [c \in 1..(Len(filenames) - 1) |->
            IF start_idx <= c - 1 /\ c - 1 < end_idx THEN 1 ELSE 0]

\* matrix M without its row i and column j
Minor(M, i, j) ==
    [r \in 1..(Len(M) - 1) |->
        [c \in 1..(Len(M) - 1) |->
            M[IF r < i THEN r ELSE r + 1][IF c < j THEN c ELSE c + 1]]]

RECURSIVE Det(_)
Det(M) ==
    IF Len(M) = 0 THEN R(1)
    ELSE IF Len(M) = 1 THEN M[1][1]
    ELSE RSum([j \in 1..Len(M) |->
                RMul(RMul(R(IF j % 2 = 1 THEN 1 ELSE -1), M[1][j]),
                     Det(Minor(M, 1, j)))])

\* the solution of the square system G y = b, Det(G) # 0 (Cramer's rule)
SolveSquare(G, b) ==
    LET d == Det(G)
    IN  [k \in 1..Len(G) |->
            RDiv(Det([r \in 1..Len(G) |->
                        [c \in 1..Len(G) |-> IF c = k THEN b[r] ELSE G[r][c]]]), d)]

\* the coefficients LinearRegression(fit_intercept=False).fit(A, d, w) finds
\* for one column d of distances: n is the number of unknowns
LeastSquares(A, d, w, n) ==
    LET m == Len(A)
        G == [r \in 1..n |-> [c \in 1..n |->
                RSum([k \in 1..m |-> R(w[k] * A[k][r] * A[k][c])])]]
        b == [r \in 1..n |->
                RSum([k \in 1..m |-> RMul(R(w[k] * A[k][r]), d[k])])]
    IN  IF Det(G) # R(0) THEN SolveSquare(G, b)
        ELSE \* independent rows: zero residual, x = A^T (A A^T)^-1 d
             LET AAt == [r \in 1..m |-> [q \in 1..m |->
                            RSum([c \in 1..n |-> R(A[r][c] * A[q][c])])]]
                 y   == SolveSquare(AAt, d)
             IN  [c \in 1..n |-> RSum([k \in 1..m |-> RMul(R(A[k][c]), y[k])])]

RECURSIVE Keep(_, _)
Keep(s, mask) ==
    IF s = <<>> THEN <<>>
    ELSE (IF Head(mask) THEN <<Head(s)>> ELSE <<>>) \o Keep(Tail(s), Tail(mask))

align(deltas, filenames, weights) ==
    LET n_unknown == Len(filenames) - 1
        n_cols  == IF Len(deltas) = 0 THEN 0 ELSE Len(deltas[1].dists)
        not_nan == [i \in 1..Len(deltas) |->
                      \A c \in 1..Len(deltas[i].dists) : ~IsNaN(deltas[i].dists[c])]
        matrix  == Keep([i \in 1..Len(deltas) |-> DesignRow(filenames, deltas[i].combo)],
                        not_nan)
        deltas_ == Keep(deltas, not_nan)
        w       == IF weights = <<>> THEN [i \in 1..Len(matrix) |-> 1]
                   ELSE Keep(weights, not_nan)
        warned  == Len(deltas) < n_unknown
        coef    == [c \in 1..n_cols |->
                      LeastSquares(matrix, [i \in 1..Len(deltas_) |-> deltas_[i].dists[c]],
                                   w, n_unknown)]
    IN  IF Len(matrix) = 0
        THEN [status |-> "ValueError", warned |-> warned, x |-> <<>>]
        ELSE [status |-> "ok", warned |-> warned,
              x |-> [k \in 1..n_unknown |-> [c \in 1..n_cols |-> coef[c][k]]]]

(***************************************************************************)
(* Helpers of calculate_deltas                                             *)
(***************************************************************************)
\* _get_offset_dict_and_columns_to_drop
_get_offset_dict_and_columns_to_drop(input_data_columns, calib) ==
    LET offset_dict == <<[col |-> "mz", mode |-> "relative"],
                         [col |-> "rt", mode |-> "absolute"]>> \o
                       (IF "mobility" \in input_data_columns
                        THEN <<[col |-> "mobility", mode |-> "relative"]>> ELSE <<>>)
        suffix == IF calib THEN "_calib" ELSE ""
        columns_to_keep == {offset_dict[j].col \o suffix : j \in 1..Len(offset_dict)}
                           \cup {"precursor"}
    IN  [offset_dict |-> offset_dict,
         columns_to_drop |-> {c \in input_data_columns : c \notin columns_to_keep}]

\* df.drop(columns=...): a KeyError when a column to drop is not in the frame
DropColumns(df, columns) ==
    IF ~(columns \subseteq df.columns) THEN [status |-> "KeyError", df |-> df]
    ELSE [status |-> "ok",
          df |-> [columns |-> df.columns \ columns,
                  rows |-> [k \in 1..Len(df.rows) |->
                              [c \in df.columns \ columns |-> df.rows[k][c]]]]]

RECURSIVE SelectSeq2(_, _, _)
SelectSeq2(rows, by, key) ==
    IF rows = <<>> THEN <<>>
    ELSE (IF Head(rows)[by] = key THEN <<Head(rows)>> ELSE <<>>)
         \o SelectSeq2(Tail(rows), by, key)

\* df.groupby(by).mean(): a table indexed by the values of column by; the
\* mean skips NaN cells
GroupByMean(df, by) ==
    LET keys == {df.rows[k][by] : k \in 1..Len(df.rows)}
    IN  [key \in keys |->
            LET grp == SelectSeq2(df.rows, by, key)
            IN  [c \in df.columns \ {by} |->
                    RMean(DropNaN([k \in 1..Len(grp) |-> grp[k][c]]))]]

\* itertools.combinations(filenames, 2), in its order
RECURSIVE Combinations2(_)
Combinations2(filenames) ==
    IF Len(filenames) < 2 THEN <<>>
    ELSE [k \in 1..(Len(filenames) - 1) |-> <<Head(filenames), filenames[k + 1]>>]
         \o Combinations2(Tail(filenames))

(***************************************************************************)
(* State.  A run is named by its file path [stem, ext]; its data file      *)
(* (stem + '.ms_data.hdf') holds the two tables peptide_fdr and            *)
(* feature_table.                                                          *)
(***************************************************************************)
VARIABLES
    pc,              \* the position of the running function
    err,             \* the exception that ended it, "" when none
    call,            \* a direct call of calculate_distance or calib_table: its arguments
    ret,             \* what that call returned
    settings,        \* the settings dictionary
    callback,        \* whether a progress callback is supplied
    files,           \* data file -> [peptide_fdr, feature_table]
    progress,        \* the values the callback has been called with
    reads,           \* the tables read so far, as <<data file, dataset>>
    writes,          \* the tables written so far, as <<data file, dataset>>
    i,               \* calculate_deltas: index of the next combo
    df_cache,        \* calculate_deltas: data file -> aggregated table
    offset_dict,     \* calculate_deltas: the mode mapping (returned)
    columns_to_drop, \* calculate_deltas: the columns not aligned
    deltas,          \* calculate_deltas: the distance rows so far (returned)
    weights,         \* calculate_deltas: the weights so far (returned)
    before_sum,      \* align_datasets: total deviation per column before calibration
    alignment,       \* align_datasets: the offset table
    idx,             \* align_files: index of the next file
    pooled,          \* match_datasets: x, the pooled identifications of all runs
    group_iter,      \* match_datasets: the groups the loop has still to visit
    group,           \* match_datasets: the group of the current pass
    files_from,      \* match_datasets: short names of the group's source runs
    files_to,        \* match_datasets: short names of the group's target runs
    to_pos,          \* match_datasets: how many target runs of the group are done
    grouped,         \* match_datasets: the reference table, precursor -> row
    std_,            \* match_datasets: precursor -> standard deviation per column
    std_range,       \* match_datasets: median standard deviation per column
    lookup_dict,     \* match_datasets: column -> precursor -> value
    matching_set,    \* match_datasets: the candidates of the last target run
    query            \* match_datasets: their nearest features and distances

ioVars == <<files, reads, writes, progress>>

deltaVars == <<i, df_cache, offset_dict, columns_to_drop, deltas, weights>>

alignVars == <<before_sum, alignment, idx>>

matchVars == <<pooled, group_iter, group, files_from, files_to, to_pos, grouped, std_,
               std_range, lookup_dict, matching_set, query>>

vars == <<pc, err, call, ret, settings, callback, ioVars, deltaVars, alignVars,
          matchVars>>

None == [status |-> "none"]

EmptyMap == [k \in {} |-> 0]

\* os.path.splitext(filename)[0] + '.ms_data.hdf'
MsDataFile(filename) == filename.stem

DeltaLocalsInit ==
    /\ i = 0
    /\ df_cache = EmptyMap
    /\ offset_dict = <<>>
    /\ columns_to_drop = {}
    /\ deltas = <<>>
    /\ weights = <<>>

AlignLocalsInit ==
    /\ before_sum = <<>>
    /\ alignment = <<>>
    /\ idx = 0

MatchLocalsInit ==
    /\ pooled = None
    /\ group_iter = {}
    /\ group = 0
    /\ files_from = <<>>
    /\ files_to = <<>>
    /\ to_pos = 0
    /\ grouped = EmptyMap
    /\ std_ = EmptyMap
    /\ std_range = <<>>
    /\ lookup_dict = EmptyMap
    /\ matching_set = <<>>
    /\ query = None

(***************************************************************************)
(* Direct calls of calculate_distance and calib_table (their unit tests,   *)
(* test_calculate_distance and test_calib_table, over all small inputs)    *)
(***************************************************************************)
MaxVal == 2

Precursors == {"A", "B", "C"}

\* tables indexed by precursor with a mass and a mobility column
IndexedTables ==
    UNION {[keys -> {[mass |-> R(v), mobility |-> R(v)] : v \in 1..MaxVal}] :
              keys \in SUBSET Precursors}

DistanceOffsetDict == <<[col |-> "mass", mode |-> "absolute"],
                        [col |-> "mobility", mode |-> "relative"]>>

Modes == {"absolute", "relative"}

\* a mode the two functions have no branch for
OtherModes == {"log"}

\* the mapping of the unit test, and the same with one mode replaced
DistanceOffsetDicts ==
    {DistanceOffsetDict} \cup
    {[DistanceOffsetDict EXCEPT ![j].mode = m] :
        j \in 1..Len(DistanceOffsetDict), m \in OtherModes}

DistanceCalls ==
    {[fn |-> "calculate_distance", table_1 |-> t1, table_2 |-> t2,
      offset_dict |-> od] :
        t1 \in IndexedTables, t2 \in IndexedTables, od \in DistanceOffsetDicts}

\* which of a dimension's columns a table has
Layouts == {{"canon"}, {"apex"}, {"canon", "apex"}}

LayoutColumns(mzl, rtl) ==
    (IF "canon" \in mzl THEN {"mz"} ELSE {}) \cup
    (IF "apex" \in mzl THEN {"mz_apex"} ELSE {}) \cup
    (IF "canon" \in rtl THEN {"rt"} ELSE {}) \cup
    (IF "apex" \in rtl THEN {"rt_apex"} ELSE {})

\* the apex columns hold other values than the canonical ones
CellValue(c, v) == IF c \in {"mz_apex", "rt_apex"} THEN R(v + MaxVal) ELSE R(v)

Frames(columns) ==
    {[columns |-> columns,
      rows |-> [k \in 1..Len(vs) |-> [c \in columns |-> CellValue(c, vs[k])]]] :
        vs \in UNION {[1..n -> 1..MaxVal] : n \in 1..2}}

Offsets == {R(0), R(1), Norm(1, 2)}

CalibCalls ==
    {[fn |-> "calib_table", table |-> t,
      delta |-> [mz |-> dmz, rt |-> drt],
      offset_dict |-> <<[col |-> "mz", mode |-> m1], [col |-> "rt", mode |-> m2]>>] :
        t \in UNION {Frames(LayoutColumns(mzl, rtl)) : mzl \in Layouts, rtl \in Layouts},
        dmz \in Offsets, drt \in Offsets,
        m1 \in Modes \cup OtherModes, m2 \in Modes \cup OtherModes}

MaxOffset == 2

RunNames == <<"A", "B", "C", "D">>

\* the distance table of runs with the per-run offsets o, the first distance
\* raised by noise: one row <<start, end>> per pair, in the order of
\* itertools.combinations
OffsetDeltas(filenames, o, noise) ==
    LET combos == Combinations2(filenames)
    IN  [k \in 1..Len(combos) |->
            [combo |-> combos[k],
             dists |-> <<R(o[IndexOf(filenames, combos[k][1])]
                           - o[IndexOf(filenames, combos[k][2])]
                           + (IF k = 1 THEN noise ELSE 0))>>]]

AlignCalls ==
    UNION {{[fn |-> "align", filenames |-> SubSeq(RunNames, 1, n),
             deltas |-> OffsetDeltas(SubSeq(RunNames, 1, n), o, noise),
             weights |-> w] :
               o \in [1..n -> 0..MaxOffset], noise \in {0, 1},
               w \in {<<>>, [k \in 1..((n * (n - 1)) \div 2) |-> k]}} :
           n \in 2..Len(RunNames)}

UnitInit ==
    /\ pc = "call"
    /\ err = ""
    /\ call \in DistanceCalls \cup CalibCalls \cup AlignCalls
    /\ ret = None
    /\ settings = None
    /\ callback = FALSE
    /\ files = EmptyMap
    /\ progress = <<>>
    /\ reads = <<>>
    /\ writes = <<>>
    /\ DeltaLocalsInit
    /\ AlignLocalsInit
    /\ MatchLocalsInit

CallCalculateDistance ==
    /\ pc = "call"
    /\ call.fn = "calculate_distance"
    /\ ret' = calculate_distance(call.table_1, call.table_2, call.offset_dict, FALSE)
    /\ pc' = "return"
    /\ UNCHANGED <<err, call, settings, callback, ioVars, deltaVars, alignVars>>
    /\ UNCHANGED matchVars

CallCalibTable ==
    /\ pc = "call"
    /\ call.fn = "calib_table"
    /\ ret' = calib_table(call.table, call.delta, call.offset_dict)
    /\ pc' = "return"
    /\ UNCHANGED <<err, call, settings, callback, ioVars, deltaVars, alignVars>>
    /\ UNCHANGED matchVars

CallAlign ==
    /\ pc = "call"
    /\ call.fn = "align"
    /\ ret' = align(call.deltas, call.filenames, call.weights)
    /\ pc' = "return"
    /\ UNCHANGED <<err, call, settings, callback, ioVars, deltaVars, alignVars>>
    /\ UNCHANGED matchVars

UnitNext == CallCalculateDistance \/ CallCalibTable \/ CallAlign

SpecUnit == UnitInit /\ [][UnitNext]_vars

(***************************************************************************)
(* align_datasets, with calculate_deltas and align_files                   *)
(***************************************************************************)
Raise(e) ==
    /\ pc' = "error"
    /\ err' = e

\* a variant that reads and aggregates the run whether it is cached or not
CacheLoadAlways(st, filename, calib) ==
    IF st.status # "ok" THEN st
    ELSE
    LET df   == files[filename].peptide_fdr
        od   == IF st.offset_dict = <<>>
                THEN _get_offset_dict_and_columns_to_drop(df.columns, calib)
                ELSE [offset_dict |-> st.offset_dict,
                      columns_to_drop |-> st.columns_to_drop]
        kept == DropColumns(df, od.columns_to_drop)
    IN  [status          |-> kept.status,
         df_cache        |-> IF kept.status # "ok" THEN st.df_cache
                             ELSE [f \in DOMAIN st.df_cache \cup {filename} |->
                                      IF f = filename THEN GroupByMean(kept.df, "precursor")
                                      ELSE st.df_cache[f]],
         offset_dict     |-> od.offset_dict,
         columns_to_drop |-> od.columns_to_drop,
         reads           |-> Append(st.reads, <<filename, "peptide_fdr">>)]

\* one pass of the loop "for filename in [filename1, filename2]" of
\* calculate_deltas; st holds the locals it changes
CacheLoad(st, filename, calib) ==
    IF st.status # "ok" \/ filename \in DOMAIN st.df_cache THEN st
    ELSE
    LET df   == files[filename].peptide_fdr
        od   == IF st.offset_dict = <<>>
                THEN _get_offset_dict_and_columns_to_drop(df.columns, calib)
                ELSE [offset_dict |-> st.offset_dict,
                      columns_to_drop |-> st.columns_to_drop]
        kept == DropColumns(df, od.columns_to_drop)
    IN  [status          |-> kept.status,
         df_cache        |-> IF kept.status # "ok" THEN st.df_cache
                             ELSE [f \in DOMAIN st.df_cache \cup {filename} |->
                                      IF f = filename THEN GroupByMean(kept.df, "precursor")
                                      ELSE st.df_cache[f]],
         offset_dict     |-> od.offset_dict,
         columns_to_drop |-> od.columns_to_drop,
         reads           |-> Append(st.reads, <<filename, "peptide_fdr">>)]

\* deltas.abs().sum() of column c: NaN cells are skipped
AbsSum(rows, c) ==
    RSum(DropNaN([k \in 1..Len(rows) |->
        IF IsNaN(rows[k].dists[c]) THEN NaN
        ELSE <<Abs(rows[k].dists[c][1]), rows[k].dists[c][2]>>]))

\* progress_wrapper(step, n_steps = 2, current)
ProgressValue(step, current) == RAdd(RDiv(R(step), R(2)), RDiv(current, R(2)))

AlignDatasetsBegin ==
    /\ pc = "align_datasets"
    /\ progress' = IF callback THEN Append(progress, ProgressValue(0, R(0))) ELSE progress
    /\ pc' = IF Len(settings.file_paths) > 1 THEN "calculate_deltas" ELSE "done"
    /\ UNCHANGED <<err, call, ret, settings, callback, files, reads, writes,
                   deltaVars, alignVars>>
    /\ UNCHANGED matchVars

CalculateDeltasIteration ==
    /\ pc \in {"calculate_deltas", "calculate_deltas_calib"}
    /\ LET calib  == pc = "calculate_deltas_calib"
           combos == Combinations2(settings.file_paths)
           combo  == combos[i + 1]
           filename1 == MsDataFile(combo[1])
           filename2 == MsDataFile(combo[2])
           st0 == [status |-> "ok", df_cache |-> df_cache, offset_dict |-> offset_dict,
                   columns_to_drop |-> columns_to_drop, reads |-> reads]
           st  == CacheLoad(CacheLoad(st0, filename1, calib), filename2, calib)
           d   == calculate_distance(st.df_cache[filename1], st.df_cache[filename2],
                                     st.offset_dict, calib)
           all == Append(deltas, [combo |-> combo, dists |-> d.deltas])
       IN  /\ reads' = st.reads
           /\ df_cache' = st.df_cache
           /\ offset_dict' = st.offset_dict
           /\ columns_to_drop' = st.columns_to_drop
           /\ IF st.status # "ok"
              THEN /\ Raise(st.status)
                   /\ UNCHANGED <<i, deltas, weights, progress, before_sum>>
              ELSE IF d.status # "ok"
              THEN /\ Raise(d.status)
                   /\ UNCHANGED <<i, deltas, weights, progress, before_sum>>
              ELSE /\ deltas' = all
                   /\ weights' = Append(weights, d.weight)
                   /\ progress' = IF callback
                                  THEN Append(progress,
                                         ProgressValue(IF calib THEN 1 ELSE 0,
                                                       RDiv(R(i + 1), R(Len(combos)))))
                                  ELSE progress
                   /\ i' = i + 1
                   /\ before_sum' = IF i + 1 = Len(combos) /\ ~calib
                                    THEN [c \in 1..Len(st.offset_dict) |-> AbsSum(all, c)]
                                    ELSE before_sum
                   /\ pc' = IF i + 1 < Len(combos) THEN pc
                            ELSE IF calib THEN "log_change" ELSE "align"
                   /\ UNCHANGED err
    /\ UNCHANGED <<call, ret, settings, callback, files, writes, alignment, idx>>
    /\ UNCHANGED matchVars

\* alignment = pd.DataFrame(align(deltas, filenames, weights, n_jobs), columns = cols)
AlignDatasetsSolve ==
    /\ pc = "align"
    /\ LET r == align(deltas, settings.file_paths, weights)
       IN  IF r.status # "ok"
           THEN /\ Raise(r.status)
                /\ UNCHANGED alignment
           ELSE /\ alignment' = r.x
                /\ pc' = "concat"
                /\ UNCHANGED err
    /\ UNCHANGED <<call, ret, settings, callback, ioVars, deltaVars, before_sum, idx>>
    /\ UNCHANGED matchVars

\* pd.concat([alignment, pd.DataFrame(np.zeros((1, alignment.shape[1])), columns= cols)])
ConcatZeroRow(table, n_cols) == table \o <<[c \in 1..n_cols |-> R(0)]>>

AlignDatasetsConcat ==
    /\ pc = "concat"
    /\ alignment' = ConcatZeroRow(alignment, Len(offset_dict))
    /\ pc' = "centre"
    /\ UNCHANGED <<err, call, ret, settings, callback, ioVars, deltaVars, before_sum, idx>>
    /\ UNCHANGED matchVars

\* a variant that subtracts the sum of the column instead of its mean
SubtractColumnSum(table, n_cols) ==
    [k \in 1..Len(table) |->
        [c \in 1..n_cols |->
            RSub(table[k][c], RSum(DropNaN([r \in 1..Len(table) |-> table[r][c]])))]]

\* alignment -= alignment.mean(): the mean of a column skips NaN cells
SubtractColumnMean(table, n_cols) ==
    [k \in 1..Len(table) |->
        [c \in 1..n_cols |->
            RSub(table[k][c], RMean(DropNaN([r \in 1..Len(table) |-> table[r][c]])))]]

AlignDatasetsCentre ==
    /\ pc = "centre"
    /\ alignment' = SubtractColumnMean(alignment, Len(offset_dict))
    /\ pc' = "align_files"
    /\ idx' = 0
    /\ UNCHANGED <<err, call, ret, settings, callback, ioVars, deltaVars, before_sum>>
    /\ UNCHANGED matchVars

\* alignment.iloc[k]: the row as a Series indexed by the columns
AlignmentRow(k) ==
    [c \in {offset_dict[j].col : j \in 1..Len(offset_dict)} |->
        alignment[k][CHOOSE j \in 1..Len(offset_dict) : offset_dict[j].col = c]]

\* one pass of the loop over filenames of align_files: both tables of the
\* file are read, calibrated and written, peptide_fdr first
AlignFilesIteration ==
    /\ pc = "align_files"
    /\ LET file  == MsDataFile(settings.file_paths[idx + 1])
           delta == AlignmentRow(idx + 1)
           r1 == calib_table(files[file].peptide_fdr, delta, offset_dict)
           r2 == calib_table(files[file].feature_table, delta, offset_dict)
           last == idx + 1 = Len(settings.file_paths)
       IN  IF r1.status # "ok"
           THEN /\ Raise(r1.status)
                /\ reads' = Append(reads, <<file, "peptide_fdr">>)
                /\ UNCHANGED <<files, writes, idx, progress, deltaVars>>
           ELSE IF r2.status # "ok"
           THEN /\ Raise(r2.status)
                /\ reads' = reads \o <<<<file, "peptide_fdr">>, <<file, "feature_table">>>>
                /\ writes' = Append(writes, <<file, "peptide_fdr">>)
                /\ files' = [files EXCEPT ![file].peptide_fdr = r1.table]
                /\ UNCHANGED <<idx, progress, deltaVars>>
           ELSE /\ reads' = reads \o <<<<file, "peptide_fdr">>, <<file, "feature_table">>>>
                /\ writes' = writes \o <<<<file, "peptide_fdr">>, <<file, "feature_table">>>>
                /\ files' = [files EXCEPT ![file] =
                                [peptide_fdr |-> r1.table, feature_table |-> r2.table]]
                /\ idx' = idx + 1
                /\ progress' = IF last /\ callback
                               THEN Append(progress, ProgressValue(0, R(1))) ELSE progress
                /\ pc' = IF last THEN "calculate_deltas_calib" ELSE pc
                \* the second calculate_deltas call starts with fresh locals
                /\ IF last
                   THEN /\ i' = 0
                        /\ df_cache' = EmptyMap
                        /\ offset_dict' = <<>>
                        /\ columns_to_drop' = {}
                        /\ deltas' = <<>>
                        /\ weights' = <<>>
                   ELSE UNCHANGED deltaVars
                /\ UNCHANGED err
    /\ UNCHANGED <<call, ret, settings, callback, before_sum, alignment>>
    /\ UNCHANGED matchVars

\* change_sum = {k: v/before_sum[k] ...}: a division of Python floats
AlignDatasetsLogChange ==
    /\ pc = "log_change"
    /\ IF \E c \in 1..Len(before_sum) : before_sum[c] = R(0)
       THEN Raise("ZeroDivisionError")
       ELSE pc' = "done" /\ UNCHANGED err
    /\ UNCHANGED <<call, ret, settings, callback, ioVars, deltaVars, alignVars>>
    /\ UNCHANGED matchVars

\* align_datasets is called once more over the same runs; ret keeps what the
\* first call left: the offsets it applied and the tables it wrote
AlignDatasetsAgain ==
    /\ pc = "done"
    /\ ret = None
    /\ ret' = [status |-> "ok", alignment |-> alignment, files |-> files]
    /\ pc' = "align_datasets"
    /\ i' = 0
    /\ df_cache' = EmptyMap
    /\ offset_dict' = <<>>
    /\ columns_to_drop' = {}
    /\ deltas' = <<>>
    /\ weights' = <<>>
    /\ before_sum' = <<>>
    /\ alignment' = <<>>
    /\ idx' = 0
    /\ UNCHANGED <<err, call, settings, callback, ioVars>>
    /\ UNCHANGED matchVars

(***************************************************************************)
(* The runs align_datasets is given                                        *)
(***************************************************************************)
MaxRt == 2

Path(stem) == [stem |-> stem, ext |-> "raw"]

FilePathLists == {<<Path("f1")>>, <<Path("f1"), Path("f2")>>,
                  <<Path("f1"), Path("f2"), Path("f3")>>}

AlignPrecursors == <<"P1", "P2">>

IdentificationColumns == {"precursor", "mz", "rt", "score"}

IdentificationRow(p, v) ==
    [precursor |-> p, mz |-> R(v + 1), rt |-> R(v), score |-> R(1)]

\* the identifications of a run: no row, one row, a row of each precursor,
\* or two rows of the first precursor
IdentificationTables ==
    {[columns |-> IdentificationColumns, rows |-> rows] :
        rows \in {<<>>} \cup
                 {<<IdentificationRow(AlignPrecursors[k], 1)>> :
                     k \in 1..Len(AlignPrecursors)} \cup
                 {<<IdentificationRow(AlignPrecursors[1], v),
                    IdentificationRow(AlignPrecursors[2], w)>> :
                     v \in 1..MaxRt, w \in 1..MaxRt} \cup
                 {<<IdentificationRow(AlignPrecursors[1], 1),
                    IdentificationRow(AlignPrecursors[1], MaxRt)>>}}

AlignFeatureTable ==
    [columns |-> {"mz", "rt_apex"}, rows |-> <<[mz |-> R(2), rt_apex |-> R(1)]>>]

AlignInit ==
    /\ pc = "align_datasets"
    /\ err = ""
    /\ call = None
    /\ ret = None
    /\ callback \in BOOLEAN
    /\ \E paths \in FilePathLists :
          /\ settings = [file_paths |-> paths]
          /\ \E t \in [{MsDataFile(paths[k]) : k \in 1..Len(paths)} -> IdentificationTables] :
                files = [f \in DOMAIN t |->
                            [peptide_fdr |-> t[f], feature_table |-> AlignFeatureTable]]
    /\ progress = <<>>
    /\ reads = <<>>
    /\ writes = <<>>
    /\ DeltaLocalsInit
    /\ AlignLocalsInit
    /\ MatchLocalsInit

AlignNext ==
    \/ AlignDatasetsBegin
    \/ CalculateDeltasIteration
    \/ AlignDatasetsSolve
    \/ AlignDatasetsConcat
    \/ AlignDatasetsCentre
    \/ AlignFilesIteration
    \/ AlignDatasetsLogChange
    \/ AlignDatasetsAgain

SpecAlign == AlignInit /\ [][AlignNext]_vars

(***************************************************************************)
(* get_probability.  numpy works in floating point, which rounds every     *)
(* result; the model keeps exact rationals and rounds a square root, a     *)
(* scaled coordinate and a term of the Mahalanobis distance down to a      *)
(* multiple of 1/FloatScale.  stats.chi2.cdf is tabulated for two degrees  *)
(* of freedom (cdf(m) = 1 - exp(-m/2)), in thousandths at m = 0, 1/4, ..., *)
(* 16, and interpolated linearly in between.                               *)
(***************************************************************************)
FloatScale == 100

\* r rounded down to a multiple of 1/FloatScale
Fl(r) == IF IsNaN(r) THEN NaN ELSE Norm((r[1] * FloatScale) \div r[2], FloatScale)

\* the largest k with lo <= k < hi and k*k <= n, given lo*lo <= n < hi*hi
RECURSIVE ISqrt(_, _, _)
ISqrt(n, lo, hi) ==
    IF hi - lo <= 1 THEN lo
    ELSE LET mid == (lo + hi) \div 2
         IN  IF mid * mid <= n THEN ISqrt(n, mid, hi) ELSE ISqrt(n, lo, mid)

Sqrt(r) ==
    IF IsNaN(r) THEN NaN
    ELSE LET n == (r[1] * FloatScale * FloatScale) \div r[2]
         IN  Norm(ISqrt(n, 0, IF n < 46340 THEN n + 1 ELSE 46340), FloatScale)

Chi2Table ==
    <<0, 118, 221, 313, 393, 465, 528, 583, 632, 675, 713, 747, 777, 803, 826,
      847, 865, 881, 895, 907, 918, 928, 936, 944, 950, 956, 961, 966, 970, 973,
      976, 979, 982, 984, 986, 987, 989, 990, 991, 992, 993, 994, 995, 995, 996,
      996, 997, 997, 998, 998, 998, 998, 998, 999, 999, 999, 999, 999, 999, 999,
      999, 1000, 1000, 1000, 1000>>

\* stats.chi2.cdf(m, 2)
Chi2Cdf(m) ==
    IF IsNaN(m) THEN NaN
    ELSE IF RLess(m, R(0)) THEN R(0)
    ELSE LET q == RMul(m, R(4))
             k == q[1] \div q[2]
         IN  IF k + 2 > Len(Chi2Table) THEN R(1)
             ELSE LET lo == R(Chi2Table[k + 1])
                      hi == R(Chi2Table[k + 2])
                  IN  RDiv(RAdd(lo, RMul(RSub(hi, lo), RSub(q, R(k)))), R(1000))

\* (x-mu)^T inv(sigma * eye) (x-mu): the standard deviations themselves are
\* the diagonal of the matrix that is inverted
Mahalanobis(xrow, mu, sigma) ==
    RSum([j \in 1..Len(mu) |->
            Fl(RDiv(RMul(RSub(xrow[j], mu[j]), RSub(xrow[j], mu[j])), sigma[j]))])

\* get_probability with an except branch that returns 0
GetProbabilityFailOpen(df, ref, sigma, index) ==
    LET sg == sigma[index + 1]
    IN  IF \E j \in 1..Len(sg) : IsNaN(sg[j]) THEN NaN
        ELSE IF \E j \in 1..Len(sg) : sg[j] = R(0) THEN R(0)
        ELSE Chi2Cdf(Mahalanobis(df[index + 1], ref[index + 1], sg))

\* df, ref and sigma are lists of rows over the alignment columns; index
\* counts from 0.  A zero on the diagonal makes np.linalg.inv raise
\* LinAlgError, which the except branch turns into NaN; a NaN standard
\* deviation gives NaN through the arithmetic.
get_probability(df, ref, sigma, index) ==
    LET sg == sigma[index + 1]
    IN  IF \E j \in 1..Len(sg) : IsNaN(sg[j]) THEN NaN
        ELSE IF \E j \in 1..Len(sg) : sg[j] = R(0) THEN NaN
        ELSE Chi2Cdf(Mahalanobis(df[index + 1], ref[index + 1], sg))

\* convert_decoy
convert_decoy(float_) == float_ = R(1)

(***************************************************************************)
(* match_datasets.  The runs of the model have no mobility column, so      *)
(* use_mobility is False and there are two alignment columns.              *)
(***************************************************************************)
base_col == <<"precursor">>

alignment_cols == <<"mz_calib", "rt_calib">>

extra_cols == <<"score", "decoy", "target">>

lookup_cols == {"sequence", "sequence_naked", "db_idx"}

bool_cols == {"decoy", "target"}

Range(s) == {s[k] : k \in 1..Len(s)}

\* all orders in which a set can be listed
Orderings(S) ==
    {s \in [1..Cardinality(S) -> S] : \A a, b \in 1..Cardinality(S) : s[a] = s[b] => a = b}

\* a boolean cell counts as 0 or 1 in a mean
CellNumber(c, v) == IF c \in bool_cols THEN (IF v THEN R(1) ELSE R(0)) ELSE v

\* alphapept.utils.assemble_df(settings, field='peptide_fdr'): the rows of
\* every run's identification table, in run order, each with the short name
\* of its run
RECURSIVE assemble_df(_, _, _)
assemble_df(st, fs, k) ==
    IF k > Len(st.file_paths) THEN [columns |-> {"shortname"}, rows |-> <<>>]
    ELSE LET t    == fs[MsDataFile(st.file_paths[k])].peptide_fdr
             rest == assemble_df(st, fs, k + 1)
             cols == t.columns \cup rest.columns
             Fill(row, own) == [c \in cols |-> IF c \in own THEN row[c] ELSE NaN]
         IN  [columns |-> cols,
              rows |-> [r \in 1..Len(t.rows) |->
                          Fill([c \in t.columns \cup {"shortname"} |->
                                  IF c = "shortname" THEN st.shortnames[k]
                                  ELSE t.rows[r][c]], t.columns \cup {"shortname"})]
                       \o [r \in 1..Len(rest.rows) |-> Fill(rest.rows[r], rest.columns)]]

\* matching_group == [] stands for one group of all runs
DefaultMatchingGroup(st) ==
    IF st.matching_group = <<>>
    THEN [st EXCEPT !.matching_group = [k \in 1..Len(st.shortnames) |-> 0]]
    ELSE st

\* file_index_from without the lower limit
FileIndexFromUpTo(matching_group, g, match_tolerance) ==
    [k \in 1..Len(matching_group) |-> matching_group[k] <= g + match_tolerance]

file_index_from(matching_group, g, match_tolerance) ==
    [k \in 1..Len(matching_group) |->
        /\ matching_group[k] <= g + match_tolerance
        /\ matching_group[k] >= g - match_tolerance]

file_index_to(matching_group, g) ==
    [k \in 1..Len(matching_group) |-> matching_group[k] = g]

\* the group is matched when more than one run is a source
MoreThanOneSource(names) == Len(names) > 1

\* len(files_from) > 2
MoreThanTwoSources(names) == Len(names) > 2

\* the pooled rows, whatever their run
AllPooledRows(xdf, names) == xdf.rows

\* xx = x[x['shortname'].apply(lambda x: x in files_from)]
SourceRows(xdf, names) ==
    LET RECURSIVE Pick(_)
        Pick(rows) == IF rows = <<>> THEN <<>>
                      ELSE (IF Head(rows)["shortname"] \in Range(names)
                            THEN <<Head(rows)>> ELSE <<>>) \o Pick(Tail(rows))
    IN  Pick(xdf.rows)

\* the cells of column c in the rows of precursor p, NaN cells dropped
GroupCells(xx, p, c) ==
    LET grp == SelectSeq2(xx, "precursor", p)
    IN  DropNaN([k \in 1..Len(grp) |-> CellNumber(c, grp[k][c])])

\* groupby('precursor').std(): the sample standard deviation, NaN for fewer
\* than two values
GroupStd(xx, p, c) ==
    LET v == GroupCells(xx, p, c)
        m == RMean(v)
    IN  IF Len(v) < 2 THEN NaN
        ELSE Sqrt(RDiv(RSum([k \in 1..Len(v) |-> RMul(RSub(v[k], m), RSub(v[k], m))]),
                       R(Len(v) - 1)))

StdTable(xx) ==
    [p \in {xx[k]["precursor"] : k \in 1..Len(xx)} |->
        [c \in Range(alignment_cols) |-> GroupStd(xx, p, c)]]

\* grouped: the means, decoy and target converted back, and the standard
\* deviations as columns <c>_std
ReferenceTable(xx) ==
    [p \in {xx[k]["precursor"] : k \in 1..Len(xx)} |->
        [c \in Range(alignment_cols) \cup Range(extra_cols)
               \cup {a \o "_std" : a \in Range(alignment_cols)} |->
            IF c \in bool_cols THEN convert_decoy(RMean(GroupCells(xx, p, c)))
            ELSE IF c \in Range(alignment_cols) \cup Range(extra_cols)
                 THEN RMean(GroupCells(xx, p, c))
            ELSE GroupStd(xx, p, CHOOSE a \in Range(alignment_cols) : a \o "_std" = c)]]

\* np.nanmedian(std_.values, axis=0)
StdRange(st) ==
    [j \in 1..Len(alignment_cols) |->
        LET ps == SetToSeq(DOMAIN st)
        IN  NanMedian([k \in 1..Len(ps) |-> st[ps[k]][alignment_cols[j]]])]

\* xx.set_index('precursor')[[...]].to_dict(): the last row of a precursor wins
LookupDict(xx) ==
    [c \in lookup_cols |->
        [p \in {xx[k]["precursor"] : k \in 1..Len(xx)} |->
            xx[CHOOSE k \in 1..Len(xx) :
                  /\ xx[k]["precursor"] = p
                  /\ \A l \in (k + 1)..Len(xx) : xx[l]["precursor"] # p][c]]]

\* dict(zip(shortnames, file_paths)): the last path of a short name wins
shortnames_lookup(st) ==
    [s \in Range(st.shortnames) |->
        st.file_paths[CHOOSE k \in 1..Len(st.shortnames) :
                         /\ st.shortnames[k] = s
                         /\ \A l \in (k + 1)..Len(st.shortnames) : st.shortnames[l] # s]]

\* the alignment columns of a row, as a point
Point(row) == [j \in 1..Len(alignment_cols) |-> row[alignment_cols[j]]]

\* tree_points and query_points: every coordinate divided by its range
ScaledPoint(row, ranges) ==
    [j \in 1..Len(alignment_cols) |-> Fl(RDiv(row[alignment_cols[j]], ranges[j]))]

\* the square of the euclidean distance
SqDist(a, b) == RSum([j \in 1..Len(a) |-> RMul(RSub(a[j], b[j]), RSub(a[j], b[j]))])

\* KDTree(tree_points) and query(query_points) raise ValueError for an empty
\* array and for coordinates that are not finite (a range that is 0 or NaN)
KDTreeFails(features, ms, ranges) ==
    \/ features.rows = <<>>
    \/ ms = <<>>
    \/ \E j \in 1..Len(ranges) : IsNaN(ranges[j]) \/ ranges[j] = R(0)

\* the features one of which query(k=1) returns for reference row ref
Nearest(features, ref, ranges) ==
    {k \in 1..Len(features.rows) :
        \A l \in 1..Len(features.rows) :
            RLeq(SqDist(ScaledPoint(features.rows[k], ranges), ScaledPoint(ref, ranges)),
                 SqDist(ScaledPoint(features.rows[l], ranges), ScaledPoint(ref, ranges)))}

\* to_keep with the threshold itself kept
ToKeepInclusive(dist_sq, match_d_min) ==
    /\ RLeq(R(0), match_d_min)
    /\ RLeq(dist_sq, RMul(match_d_min, match_d_min))

\* to_keep = dist < match_d_min, for a distance given by its square
to_keep(dist_sq, match_d_min) ==
    /\ RLess(R(0), match_d_min)
    /\ RLess(dist_sq, RMul(match_d_min, match_d_min))

\* the positions of a list where mask holds, in order
RECURSIVE Where(_, _)
Where(mask, k) ==
    IF k > Len(mask) THEN <<>>
    ELSE (IF mask[k] THEN <<k>> ELSE <<>>) \o Where(mask, k + 1)

\* the body of the loop over files_to from "matched = ..." to the concat:
\* df_ for the candidates ms with nearest features q.idx at distances q.dist_sq
\* a variant that keeps every column of the matched rows
AllMatchedColumns(mcols, dcols) == mcols

\* list(set(matched.columns).intersection(set(df.columns)))
shared_columns(mcols, dcols) == mcols \cap dcols

\* a variant that offers every precursor of the reference
AllReferenceKeys(reference, df) == DOMAIN reference

\* set(grouped.index) - set(df['precursor'])
MatchingCandidates(reference, df) ==
    (DOMAIN reference) \ {df.rows[k]["precursor"] : k \in 1..Len(df.rows)}

MatchedFrame(df, features, ms, q, match_d_min, match_p_min) ==
    LET near   == Where([k \in 1..Len(ms) |-> to_keep(q.dist_sq[k], match_d_min)], 1)
        dfm    == [k \in 1..Len(near) |-> Point(features.rows[q.idx[near[k]]])]
        ref    == [k \in 1..Len(near) |-> Point(grouped[ms[near[k]]])]
        sigma  == [k \in 1..Len(near) |-> Point(std_[ms[near[k]]])]
        matching_p == [k \in 1..Len(near) |-> get_probability(dfm, ref, sigma, k - 1)]
        likely == Where([k \in 1..Len(near) |-> RLess(matching_p[k], match_p_min)], 1)
        mcols  == features.columns \cup {"feature_idx"} \cup Range(extra_cols)
                  \cup {"matching_p", "precursor", "type"} \cup DOMAIN lookup_dict
        Matched(k) ==
            LET p == ms[near[k]]
                f == q.idx[near[k]]
            IN  [c \in mcols |->
                    IF c \in DOMAIN lookup_dict THEN lookup_dict[c][p]
                    ELSE IF c = "type" THEN "matched"
                    ELSE IF c = "precursor" THEN p
                    ELSE IF c = "matching_p" THEN matching_p[k]
                    ELSE IF c \in Range(extra_cols) THEN grouped[p][c]
                    ELSE IF c = "feature_idx" THEN R(f - 1)
                    ELSE features.rows[f][c]]
        dcols  == df.columns \cup {"type", "matching_p"}
        shared == shared_columns(mcols, dcols)
        \* pd.concat: the columns of both frames, a cell a frame lacks is NaN
        ccols  == dcols \cup shared
    IN  [columns |-> ccols,
         rows |-> [k \in 1..Len(df.rows) |->
                     [c \in ccols |-> IF c = "type" THEN "msms"
                                      ELSE IF c = "matching_p" THEN NaN
                                      ELSE IF c \in dcols THEN df.rows[k][c]
                                      ELSE NaN]]
                  \o [k \in 1..Len(likely) |->
                        [c \in ccols |-> IF c \in shared
                                         THEN Matched(likely[k])[c] ELSE NaN]]]

MatchDatasetsBegin ==
    /\ pc = "match_datasets"
    /\ IF Len(settings.file_paths) > 2
       THEN /\ settings' = DefaultMatchingGroup(settings)
            /\ pooled' = assemble_df(settings, files, 1)
            /\ group_iter' = Range(settings'.matching_group)
            /\ pc' = "match_groups"
       ELSE /\ pc' = "done"
            /\ UNCHANGED <<settings, pooled, group_iter>>
    /\ UNCHANGED <<err, call, ret, callback, ioVars, deltaVars, alignVars, group,
                   files_from, files_to, to_pos, grouped, std_, std_range, lookup_dict,
                   matching_set, query>>

\* a variant that assembles the identifications anew from the files as they
\* are when a group is reached
IdentificationsReread == assemble_df(settings, files, 1)

\* x as the loop over the groups sees it: the table assembled before the loop
IdentificationsOfCall == pooled

SourcesOf(g) ==
    Keep(settings.shortnames,
         file_index_from(settings.matching_group, g, settings.match_group_tol))

TargetsOf(g) == Keep(settings.shortnames, file_index_to(settings.matching_group, g))

\* a pass of "for group in set(matching_group)", the order of a set being
\* any, for a group with more than two source runs: the reference is built
MatchDatasetsGroup ==
    /\ pc = "match_groups"
    /\ \E g \in group_iter :
          /\ MoreThanTwoSources(SourcesOf(g))
          /\ group' = g
          /\ group_iter' = group_iter \ {g}
          /\ files_from' = SourcesOf(g)
          /\ files_to' = TargetsOf(g)
          /\ LET xx == SourceRows(IdentificationsOfCall, SourcesOf(g))
             IN  /\ grouped' = ReferenceTable(xx)
                 /\ std_' = StdTable(xx)
                 /\ std_range' = StdRange(StdTable(xx))
                 /\ lookup_dict' = LookupDict(xx)
    /\ to_pos' = 0
    /\ pc' = "match_files"
    /\ UNCHANGED <<err, call, ret, settings, callback, ioVars, deltaVars, alignVars,
                   pooled, matching_set, query>>

\* such a pass for a group with fewer source runs: a log line only
MatchDatasetsSkipGroup ==
    /\ pc = "match_groups"
    /\ \E g \in group_iter :
          /\ ~MoreThanTwoSources(SourcesOf(g))
          /\ group' = g
          /\ group_iter' = group_iter \ {g}
          /\ files_from' = SourcesOf(g)
          /\ files_to' = TargetsOf(g)
    /\ UNCHANGED <<pc, err, call, ret, settings, callback, ioVars, deltaVars, alignVars,
                   pooled, to_pos, grouped, std_, std_range, lookup_dict,
                   matching_set, query>>

\* a pass of "for file_to in files_to".  list(set(...)) lists the
\* candidates in any order, and of several nearest features query returns
\* any one.
MatchDatasetsFile ==
    /\ pc = "match_files"
    /\ LET file     == MsDataFile(shortnames_lookup(settings)[files_to[to_pos + 1]])
           df       == files[file].peptide_fdr
           features == files[file].feature_table
           last     == to_pos + 1 = Len(files_to)
       IN  /\ reads' = reads \o <<<<file, "peptide_fdr">>, <<file, "feature_table">>>>
           /\ \E ms \in Orderings(MatchingCandidates(grouped, df)) :
                 /\ matching_set' = ms
                 /\ IF KDTreeFails(features, ms, std_range)
                    THEN /\ Raise("ValueError")
                         /\ UNCHANGED <<files, writes, to_pos, query>>
                    ELSE \E nn \in [1..Len(ms) -> 1..Len(features.rows)] :
                         /\ \A k \in 1..Len(ms) :
                               nn[k] \in Nearest(features, grouped[ms[k]], std_range)
                         /\ query' =
                               [dist_sq |-> [k \in 1..Len(ms) |->
                                    SqDist(ScaledPoint(features.rows[nn[k]], std_range),
                                           ScaledPoint(grouped[ms[k]], std_range))],
                                idx |-> nn]
                         /\ files' = [files EXCEPT ![file].peptide_fdr =
                                         MatchedFrame(df, features, ms, query',
                                                      settings.match_d_min,
                                                      settings.match_p_min)]
                         /\ writes' = Append(writes, <<file, "peptide_fdr">>)
                         /\ to_pos' = IF last THEN 0 ELSE to_pos + 1
                         /\ pc' = IF last THEN "match_groups" ELSE pc
                         /\ UNCHANGED err
    /\ UNCHANGED <<call, ret, settings, callback, progress, deltaVars, alignVars,
                   pooled, group_iter, group, files_from, files_to, grouped, std_,
                   std_range, lookup_dict>>

MatchDatasetsEnd ==
    /\ pc = "match_groups"
    /\ group_iter = {}
    /\ pc' = "done"
    /\ UNCHANGED <<err, call, ret, settings, callback, ioVars, deltaVars, alignVars,
                   matchVars>>

(***************************************************************************)
(* The experiments match_datasets is given: 2, 3 or 4 calibrated runs with *)
(* distinct short names, one group label per run or none, and up to two    *)
(* precursors.  A precursor identified in run k has retention time k (or   *)
(* the same retention time 2 in every run) and twice that as mass.         *)
(***************************************************************************)
MaxFeature == 3

MatchPaths == <<Path("m1"), Path("m2"), Path("m3"), Path("m4")>>

MatchShortnames == <<"s1", "s2", "s3", "s4">>

MatchPrecursors == {"P1", "P2"}

\* number of runs, matching_group, match_group_tol
Experiments ==
    {<<2, <<>>, 0>>,
     <<3, <<>>, 0>>, <<3, <<0, 0, 1>>, 0>>, <<3, <<0, 0, 1>>, 1>>,
     <<4, <<0, 0, 0, 1>>, 0>>, <<4, <<0, 0, 0, 1>>, 1>>}

\* match_p_min, match_d_min
Thresholds == {<<Norm(1, 20), R(3)>>, <<R(1), R(1)>>, <<R(1), R(3)>>}

MatchIdColumns ==
    {"precursor", "mz_calib", "rt_calib", "score", "decoy", "target",
     "sequence", "sequence_naked", "db_idx", "q_value"}

MatchIdRow(p, v) ==
    [precursor |-> p, mz_calib |-> R(2 * v), rt_calib |-> R(v), score |-> R(1),
     decoy |-> FALSE, target |-> TRUE, sequence |-> p, sequence_naked |-> p,
     db_idx |-> R(0), q_value |-> R(0)]

\* the identifications of run k: of each precursor in ps one row
MatchIdTable(ps, k, steady) ==
    [columns |-> MatchIdColumns,
     rows |-> LET keys == SetToSeq(ps)
              IN  [r \in 1..Len(keys) |->
                      MatchIdRow(keys[r], IF keys[r] \in steady THEN 2 ELSE k)]]

Feature(a, b) == [mz_calib |-> R(2 * a), rt_calib |-> R(b)]

\* the features of a run: none, one, or two at the opposite ends
MatchFeatureTables ==
    {[columns |-> {"mz_calib", "rt_calib"}, rows |-> rows] :
        rows \in {<<>>} \cup {<<Feature(b, b)>> : b \in 1..MaxFeature}
                 \cup {<<Feature(2, b)>> : b \in 1..MaxFeature}
                 \cup {<<Feature(1, 1), Feature(MaxFeature, MaxFeature)>>}}

\* which precursors each of n runs identifies; of more than three runs all
\* but the last identify P1
IdentifiedIn(n) ==
    {ids \in [1..n -> SUBSET MatchPrecursors] :
        n > 3 => \A k \in 1..(n - 1) : "P1" \in ids[k]}

MatchInit ==
    /\ pc = "match_datasets"
    /\ err = ""
    /\ call = None
    /\ ret = None
    \* a callback is supplied; match_datasets never refers to its parameter
    /\ callback = TRUE
    /\ \E e \in Experiments, th \in Thresholds :
          /\ settings = [file_paths |-> SubSeq(MatchPaths, 1, e[1]),
                         shortnames |-> SubSeq(MatchShortnames, 1, e[1]),
                         matching_group |-> e[2],
                         match_group_tol |-> e[3],
                         match_p_min |-> th[1],
                         match_d_min |-> th[2]]
          /\ \E ids \in IdentifiedIn(e[1]),
                steady \in {{}, {"P1"}},
                features \in MatchFeatureTables :
                files = [f \in {MsDataFile(MatchPaths[k]) : k \in 1..e[1]} |->
                           LET k == CHOOSE k \in 1..e[1] : MsDataFile(MatchPaths[k]) = f
                           IN  [peptide_fdr |-> MatchIdTable(ids[k], k, steady),
                                feature_table |-> features]]
    /\ progress = <<>>
    /\ reads = <<>>
    /\ writes = <<>>
    /\ DeltaLocalsInit
    /\ AlignLocalsInit
    /\ MatchLocalsInit

MatchNext ==
    \/ MatchDatasetsBegin
    \/ MatchDatasetsGroup
    \/ MatchDatasetsSkipGroup
    \/ MatchDatasetsFile
    \/ MatchDatasetsEnd

SpecMatch == MatchInit /\ [][MatchNext]_vars

(***************************************************************************)
(* Claims about calculate_distance and calib_table (SpecUnit)              *)
(***************************************************************************)
AtReturnOf(fn) == pc = "return" /\ call.fn = fn

\* every mode of the mapping is 'absolute' or 'relative'
ModesSupported(od) == \A j \in 1..Len(od) : od[j].mode \in {"absolute", "relative"}

\* the paired difference of one key in one dimension
PairedDiff(mode, v1, v2) ==
    IF mode = "absolute" THEN RSub(v1, v2)
    ELSE RMul(RDiv(RSub(v1, v2), RAdd(v1, v2)), R(2))

\* x is the rank-th smallest of the values D[k], k \in S
IsOrderStatistic(x, rank, D, S) ==
    /\ Cardinality({k \in S : RLess(D[k], x)}) < rank
    /\ Cardinality({k \in S : RLeq(D[k], x)}) >= rank

\* m is the median of the values D[k], k \in S, S not empty
IsMedianOf(m, D, S) ==
    LET n  == Cardinality(S)
        lo == (n + 1) \div 2
        hi == n + 1 - lo
    IN  \E a \in S, b \in S :
            /\ IsOrderStatistic(D[a], lo, D, S)
            /\ IsOrderStatistic(D[b], hi, D, S)
            /\ m = RDiv(RAdd(D[a], D[b]), R(2))

Without(table, k) == [x \in (DOMAIN table) \ {k} |-> table[x]]

\* weight and statistics come from the shared keys alone
DistanceOverSharedKeys ==
    LET t1 == call.table_1
        t2 == call.table_2
        od == call.offset_dict
        S  == (DOMAIN t1) \cap (DOMAIN t2)
    IN  /\ ret.status = "ok"
        /\ ret.weight = Cardinality(S)
        /\ Len(ret.deltas) = Len(od)
        /\ S # {} =>
              \A j \in 1..Len(od) :
                 IsMedianOf(ret.deltas[j],
                            [k \in S |-> PairedDiff(od[j].mode, t1[k][od[j].col],
                                                    t2[k][od[j].col])], S)
        /\ \A k \in (DOMAIN t1) \ (DOMAIN t2) :
              calculate_distance(Without(t1, k), t2, od, FALSE) = ret
        /\ \A k \in (DOMAIN t2) \ (DOMAIN t1) :
              calculate_distance(t1, Without(t2, k), od, FALSE) = ret

SelfDistanceIsZero ==
    /\ \A j \in 1..Len(ret.deltas) : ret.deltas[j] = R(0)
    /\ ret.weight = Cardinality(DOMAIN call.table_1)

\* the distances of column c are differences of per-run values: with the
\* last run at 0, run k is at its distance to the last run
Telescoping(rows, filenames, c) ==
    LET n == Len(filenames)
        o == [k \in 1..n |->
                IF k = n THEN R(0)
                ELSE (CHOOSE r \in {rows[q] : q \in 1..Len(rows)} :
                        r.combo = <<filenames[k], filenames[n]>>).dists[c]]
    IN  \A q \in 1..Len(rows) :
            rows[q].dists[c] = RSub(o[IndexOf(filenames, rows[q].combo[1])],
                                    o[IndexOf(filenames, rows[q].combo[2])])

\* the sum of x[k][c] for the design columns index(A) .. index(B)-1
SpanSum(x, filenames, combo, c) ==
    RSum([k \in 1..(IndexOf(filenames, combo[2]) - IndexOf(filenames, combo[1])) |->
            x[IndexOf(filenames, combo[1]) + k - 1][c]])

\* C2: given noise-free distances delta(A,B) = o_A - o_B for every pair of
\* the run list, align returns N-1 values per dimension that reproduce every
\* distance as the sum of x_k, k = index(A) .. index(B)-1 (zero residual).
C2_AlignZeroResidual ==
    (AtReturnOf("align") /\ Telescoping(call.deltas, call.filenames, 1)) =>
        /\ ret.status = "ok"
        /\ Len(ret.x) = Len(call.filenames) - 1
        /\ \A q \in 1..Len(call.deltas) :
              call.deltas[q].dists[1] =
                  SpanSum(ret.x, call.filenames, call.deltas[q].combo, 1)

\* C2 witness: the example of test_align, distances A-B = 1, A-C = -1,
\* B-C = -2 and the result [1, -2].
C2_Witness ==
    /\ AtReturnOf("align")
    /\ call.filenames = <<"A", "B", "C">>
    /\ [k \in 1..3 |-> call.deltas[k].dists[1]] = <<R(1), R(-1), R(-2)>>
    /\ ret.x = <<<<R(1)>>, <<R(-2)>>>>

\* C3 (the claim as stated): calib_table writes '<dim>_calib' for every
\* dimension of the mode mapping, in both modes, from the canonical column
\* when the table has it and from the '<dim>_apex' column otherwise:
\* source - offset[dim] (absolute), source * (1 - offset[dim]) (relative).
C3_CalibEveryDimension ==
    (AtReturnOf("calib_table") /\ ModesSupported(call.offset_dict)) =>
        /\ ret.status = "ok"
        /\ \A j \in 1..Len(call.offset_dict) :
              LET col == call.offset_dict[j].col
                  src == IF col \in call.table.columns THEN col ELSE col \o "_apex"
                  off == call.delta[col]
              IN  /\ (col \o "_calib") \in ret.table.columns
                  /\ \A k \in 1..Len(call.table.rows) :
                        ret.table.rows[k][col \o "_calib"] =
                            IF call.offset_dict[j].mode = "absolute"
                            THEN RSub(call.table.rows[k][src], off)
                            ELSE RMul(call.table.rows[k][src], RSub(R(1), off))

\* C4 (the claim as stated): calculate_distance uses only the keys present in
\* both tables (weight = number of shared keys, each statistic the median of
\* the paired differences over them, a key of one table only changes
\* nothing), and for T1 = T2 every distance is 0 and the weight is the table
\* size.
C4_Original ==
    (AtReturnOf("calculate_distance") /\ ModesSupported(call.offset_dict)) =>
        /\ DistanceOverSharedKeys
        /\ call.table_1 = call.table_2 => SelfDistanceIsZero

\* C4 (amended): the same, the distance of a table to itself being 0 for
\* every table that has at least one row.
C4_SharedKeysOnly ==
    (AtReturnOf("calculate_distance") /\ ModesSupported(call.offset_dict)) =>
        /\ DistanceOverSharedKeys
        /\ (call.table_1 = call.table_2 /\ DOMAIN call.table_1 # {}) => SelfDistanceIsZero

\* C4 witness: two tables with two shared keys, the first with a key of its
\* own, and nonzero distances.
C4_Witness ==
    /\ AtReturnOf("calculate_distance")
    /\ ret.status = "ok"
    /\ Cardinality((DOMAIN call.table_1) \cap (DOMAIN call.table_2)) = 2
    /\ (DOMAIN call.table_1) \ (DOMAIN call.table_2) # {}
    /\ ret.deltas[1] # R(0)
    /\ ret.deltas[2] # R(0)

(***************************************************************************)
(* Claims about align_datasets (SpecAlign)                                 *)
(***************************************************************************)
NRuns == Len(settings.file_paths)

\* the position of column col in the alignment table and in the distances
ColumnIndex(col) == CHOOSE j \in 1..Len(offset_dict) : offset_dict[j].col = col

\* the measured retention times of a run, one per precursor
MeasuredRt(k) ==
    LET t == GroupByMean(files[MsDataFile(settings.file_paths[k])].peptide_fdr,
                         "precursor")
    IN  [p \in DOMAIN t |-> t[p]["rt"]]

\* the runs hold the same precursors, one row each, and any two runs differ
\* by one fixed retention-time shift on all of them
SharedAndShifted ==
    /\ \A k \in 1..NRuns :
          /\ DOMAIN MeasuredRt(k) = DOMAIN MeasuredRt(1)
          /\ Len(files[MsDataFile(settings.file_paths[k])].peptide_fdr.rows)
                = Cardinality(DOMAIN MeasuredRt(1))
    /\ DOMAIN MeasuredRt(1) # {}
    /\ \A k \in 1..NRuns : \A p, q \in DOMAIN MeasuredRt(1) :
          RSub(MeasuredRt(k)[p], MeasuredRt(1)[p]) = RSub(MeasuredRt(k)[q], MeasuredRt(1)[q])

\* o_a - o_b, read off any shared precursor
ShiftBetween(a, b) ==
    LET p == CHOOSE q \in DOMAIN MeasuredRt(1) : TRUE
    IN  RSub(MeasuredRt(a)[p], MeasuredRt(b)[p])

\* the offsets applied reproduce the shifts, and the calibrated distances
\* are all zero (read when the second calculate_deltas pass has returned)
ShiftsRecovered ==
    /\ \A a, b \in 1..NRuns :
          RSub(alignment[a][ColumnIndex("rt")], alignment[b][ColumnIndex("rt")])
              = ShiftBetween(a, b)
    /\ \A q \in 1..Len(deltas) : deltas[q].dists[ColumnIndex("rt")] = R(0)

\* C1 (the claim as stated): for 3 runs that share all precursors and differ
\* by fixed noise-free absolute shifts o, the offsets a that align_datasets
\* applies satisfy a_i - a_j = o_i - o_j for every pair of runs, and every
\* pairwise distance computed on the calibrated columns afterwards is 0.
C1_ThreeRunsAligned ==
    (pc = "log_change" /\ NRuns = 3 /\ SharedAndShifted) => ShiftsRecovered

AfterCentring == {"align_files", "calculate_deltas_calib", "log_change", "done"}

\* C5: with N > 1 runs the offset table has one row per run; before
\* mean-centring the offsets of the last run of the run list are zero in every
\* dimension, and after mean-centring the offsets of all N runs sum to zero in
\* every dimension.
C5_ReferenceRunAndZeroSum ==
    /\ pc = "centre" =>
          /\ NRuns > 1
          /\ Len(alignment) = NRuns
          /\ \A c \in 1..Len(offset_dict) : alignment[NRuns][c] = R(0)
    /\ (pc \in AfterCentring /\ NRuns > 1) =>
          /\ Len(alignment) = NRuns
          /\ \A c \in 1..Len(offset_dict) :
                RSum([k \in 1..NRuns |-> alignment[k][c]]) = R(0)

\* C5 witness: three runs whose files are being calibrated with offsets that
\* are not all zero.
C5_Witness ==
    /\ pc = "align_files"
    /\ NRuns = 3
    /\ idx = 1
    /\ \A c \in 1..Len(offset_dict) : alignment[1][c] # R(0) /\ alignment[3][c] # R(0)

(***************************************************************************)
(* Claims about match_datasets and get_probability                         *)
(***************************************************************************)
\* a pass of the loop over files_to has ended, and grouped, std_,
\* matching_set and query are those of that pass
LastPass ==
    /\ query # None
    /\ \/ pc \in {"match_groups", "done"}
       \/ pc = "match_files" /\ to_pos >= 1

\* the identification table that pass has written, and the features of its run
LastTable == files[writes[Len(writes)][1]].peptide_fdr

LastFeatures == files[writes[Len(writes)][1]].feature_table

MatchedRowsOf(table) ==
    IF "type" \notin table.columns THEN {}
    ELSE {k \in 1..Len(table.rows) : table.rows[k]["type"] = "matched"}

\* precursor p has been merged into the table
Merged(p) == \E k \in MatchedRowsOf(LastTable) : LastTable.rows[k]["precursor"] = p

\* the match probability of the k-th candidate and its nearest feature
CandidateP(k) ==
    get_probability(<<Point(LastFeatures.rows[query.idx[k]])>>,
                    <<Point(grouped[matching_set[k]])>>,
                    <<Point(std_[matching_set[k]])>>, 0)

ProbabilityBelow(k) ==
    /\ ~IsNaN(CandidateP(k))
    /\ RLess(CandidateP(k), settings.match_p_min)

DistanceBelow(k) ==
    /\ RLess(R(0), settings.match_d_min)
    /\ RLess(query.dist_sq[k], RMul(settings.match_d_min, settings.match_d_min))

DistanceNotAbove(k) ==
    /\ RLeq(R(0), settings.match_d_min)
    /\ RLeq(query.dist_sq[k], RMul(settings.match_d_min, settings.match_d_min))

\* C6, as stated: a candidate is merged if and only if its normalized
\* nearest-neighbour distance does not exceed match_d_min and its match
\* probability is defined and below match_p_min.
C6_Original ==
    LastPass =>
        \A k \in 1..Len(matching_set) :
            Merged(matching_set[k]) <=> (DistanceNotAbove(k) /\ ProbabilityBelow(k))

\* C6, amended: a candidate is merged if and only if its normalized
\* nearest-neighbour distance is strictly below match_d_min and its match
\* probability is defined and strictly below match_p_min; a candidate at or
\* beyond either threshold is never merged.
C6_MergedIffBelowBoth ==
    LastPass =>
        \A k \in 1..Len(matching_set) :
            Merged(matching_set[k]) <=> (DistanceBelow(k) /\ ProbabilityBelow(k))

\* C6, witness: of the candidates of one target run one is merged, at a
\* distance that is not 0, and one is not
C6_Witness ==
    /\ LastPass
    /\ \E k \in 1..Len(matching_set) :
          Merged(matching_set[k]) /\ query.dist_sq[k] # R(0)
    /\ \E k \in 1..Len(matching_set) : ~Merged(matching_set[k])

Singular(p) == \E j \in 1..Len(alignment_cols) : std_[p][alignment_cols[j]] = R(0)

\* C7: get_probability returns the undefined value whenever some
\* dimension's reference standard deviation is zero (the diagonal covariance
\* is singular), and such a candidate is never merged, whatever match_p_min.
C7_SingularNeverMerged ==
    LastPass =>
        \A k \in 1..Len(matching_set) :
            Singular(matching_set[k]) =>
                IsNaN(CandidateP(k)) /\ ~Merged(matching_set[k])

\* C7, witness: a candidate with a zero standard deviation whose nearest
\* feature is within the distance threshold has been passed over
C7_Witness ==
    /\ LastPass
    /\ \E k \in 1..Len(matching_set) :
          /\ Singular(matching_set[k])
          /\ DistanceBelow(k)
          /\ ~Merged(matching_set[k])

\* the source runs of the current group whose pooled rows hold precursor p
SourceRunsOf(p) ==
    {pooled.rows[k]["shortname"] : k \in {l \in 1..Len(pooled.rows) :
                                            pooled.rows[l]["precursor"] = p}}
    \cap Range(files_from)

PooledRowsOf(p) ==
    {k \in 1..Len(pooled.rows) : /\ pooled.rows[k]["precursor"] = p
                                 /\ pooled.rows[k]["shortname"] \in Range(files_from)}

\* C8, as stated: every precursor of the reference table of a group was
\* observed in at least 3 of the group's source runs, and a precursor seen
\* in only 1 or 2 source runs is never a candidate for transfer.
C8_Original ==
    pc = "match_files" =>
        /\ \A p \in DOMAIN grouped : Cardinality(SourceRunsOf(p)) >= 3
        /\ to_pos >= 1 =>
              \A k \in 1..Len(matching_set) :
                  Cardinality(SourceRunsOf(matching_set[k])) >= 3

\* C8, amended: every precursor of the reference table of a group was
\* observed in at least one of the group's source runs, of which there are
\* at least 3; the candidates for transfer into a target run are all the
\* reference precursors the run has not identified, those seen in only 1 or
\* 2 source runs included, and only a precursor with a single pooled row
\* (its standard deviation is undefined) is never merged.
C8_ObservedInSomeSourceRun ==
    pc = "match_files" =>
        /\ Len(files_from) >= 3
        /\ \A p \in DOMAIN grouped : Cardinality(SourceRunsOf(p)) >= 1
        /\ to_pos >= 1 =>
              /\ Range(matching_set) =
                    (DOMAIN grouped) \
                    {LastTable.rows[k]["precursor"] :
                        k \in (1..Len(LastTable.rows)) \ MatchedRowsOf(LastTable)}
              /\ \A k \in 1..Len(matching_set) :
                    Cardinality(PooledRowsOf(matching_set[k])) = 1
                        => ~Merged(matching_set[k])

\* C8, witness: a precursor seen in two source runs has been merged into a
\* third run
C8_Witness ==
    /\ pc = "match_files"
    /\ to_pos >= 1
    /\ \E k \in 1..Len(matching_set) :
          /\ Cardinality(SourceRunsOf(matching_set[k])) = 2
          /\ Merged(matching_set[k])

\* the runs whose group label is within match_group_tol of label g
SourceRunsOfGroup(g) ==
    {k \in 1..Len(settings.matching_group) :
        /\ settings.matching_group[k] - g <= settings.match_group_tol
        /\ g - settings.matching_group[k] <= settings.match_group_tol}

MemberRunsOfGroup(g) ==
    {k \in 1..Len(settings.matching_group) : settings.matching_group[k] = g}

\* the group label of the run with data file f
LabelOfFile(f) ==
    settings.matching_group[CHOOSE k \in 1..Len(settings.file_paths) :
                                MsDataFile(settings.file_paths[k]) = f]

RunsMatchedInto ==
    {k \in 1..Len(settings.file_paths) :
        MatchedRowsOf(files[MsDataFile(settings.file_paths[k])].peptide_fdr) # {}}

\* C10, as stated: a reference is built, and identifications are
\* transferred, only for matching groups with at least 3 member runs,
\* whatever the tolerance.
C10_Original ==
    /\ pc = "match_files" => Cardinality(MemberRunsOfGroup(group)) >= 3
    /\ pc # "match_datasets" =>
          \A k \in RunsMatchedInto :
              Cardinality(MemberRunsOfGroup(settings.matching_group[k])) >= 3

\* C10, amended: a reference is built, and identifications are transferred,
\* only for matching groups with at least 3 source runs (runs whose label is
\* within the tolerance of the group's label); for a tolerance of 0 these
\* are the groups with at least 3 member runs.
C10_ThreeSourceRuns ==
    LET Populated(g) ==
            /\ Cardinality(SourceRunsOfGroup(g)) >= 3
            /\ settings.match_group_tol = 0 => Cardinality(MemberRunsOfGroup(g)) >= 3
    IN  /\ pc = "match_files" => Populated(group)
        /\ pc # "match_datasets" =>
              \A k \in RunsMatchedInto : Populated(settings.matching_group[k])

\* C10, witness: an identification has been transferred into a run whose
\* group has fewer than 3 members
C10_Witness ==
    /\ pc # "match_datasets"
    /\ \E k \in RunsMatchedInto :
          Cardinality(MemberRunsOfGroup(settings.matching_group[k])) < 3


(***************************************************************************)
(* Claims about error handling in the alignment (SpecAlign, SpecUnit)      *)
(***************************************************************************)
\* the runs of the q-th compared pair share no precursor
EmptyIntersection(q) ==
    shared_precursors(df_cache[MsDataFile(deltas[q].combo[1])],
                      df_cache[MsDataFile(deltas[q].combo[2])]) = {}

\* C11 (the claim as stated): a pair of runs with an empty precursor-key
\* intersection gets an undefined distance in every dimension and weight 0,
\* and an alignment over such a pair completes without raising an error:
\* the regression never fails with a ValueError.
C11_EmptyIntersectionTolerated ==
    /\ \A q \in 1..Len(deltas) :
          EmptyIntersection(q) =>
              /\ \A c \in 1..Len(deltas[q].dists) : IsNaN(deltas[q].dists[c])
              /\ weights[q] = 0
    /\ (\E q \in 1..Len(deltas) : EmptyIntersection(q)) =>
          ~(pc = "error" /\ err = "ValueError")

\* the columns and offsets the supported dimensions of a calib_table call
\* refer to are there: the source column (canonical, else apex) in absolute
\* mode, the canonical column in relative mode
ReferencedColumnsPresent ==
    \A j \in 1..Len(call.offset_dict) :
       LET col  == call.offset_dict[j].col
           mode == call.offset_dict[j].mode
       IN  /\ col \in DOMAIN call.delta
           /\ mode = "absolute" =>
                 (col \in call.table.columns \/ (col \o "_apex") \in call.table.columns)
           /\ mode = "relative" => col \in call.table.columns

\* C12: calculate_distance and calib_table each raise the unsupported-mode
\* error (NotImplementedError) whenever the mode mapping contains a dimension
\* whose mode is neither 'absolute' nor 'relative', all referenced columns
\* being present; neither returns a result then.
C12_UnsupportedModeRaises ==
    /\ (AtReturnOf("calculate_distance") /\ ~ModesSupported(call.offset_dict)) =>
          /\ ret.status = "NotImplementedError"
          /\ ret.deltas = <<>>
    /\ (AtReturnOf("calib_table") /\ ~ModesSupported(call.offset_dict)
          /\ ReferencedColumnsPresent) =>
          ret.status = "NotImplementedError"

\* C12 witness: calib_table with a supported first and an unsupported second
\* dimension has written the first calibrated column and then raised.
C12_Witness ==
    /\ AtReturnOf("calib_table")
    /\ call.offset_dict[1].mode = "relative"
    /\ call.offset_dict[2].mode \notin {"absolute", "relative"}
    /\ ret.status = "NotImplementedError"
    /\ "mz_calib" \in ret.table.columns
    /\ "rt_calib" \notin ret.table.columns

\* the rows of the distance table without an undefined distance
ValidComparisons ==
    {q \in 1..Len(deltas) : \A c \in 1..Len(deltas[q].dists) : ~IsNaN(deltas[q].dists[c])}

\* C14 (the claim as stated): whenever the number of valid comparisons (rows
\* left after removing rows with an undefined distance) is smaller than the
\* number of unknowns N-1, align emits the low-overlap warning and still
\* fits and returns a result.  Read when align has returned to
\* align_datasets.
C14_WarnsOnLowOverlap ==
    (pc = "concat" /\ Cardinality(ValidComparisons) < NRuns - 1) =>
        LET r == align(deltas, settings.file_paths, weights)
        IN  r.status = "ok" /\ r.warned

\* a calculate_deltas pass is running
InDeltasPass == pc \in {"calculate_deltas", "calculate_deltas_calib"}

\* the runs of the pairs compared so far in the pass
RunsCompared ==
    {MsDataFile(deltas[q].combo[k]) : q \in 1..Len(deltas), k \in 1..2}

\* the entries a step has added to the log of reads
NewReads == SubSeq(reads', Len(reads) + 1, Len(reads'))

\* C18: within one calculate_deltas pass each distinct run is read and
\* aggregated exactly once no matter in how many pairs it appears, its cached
\* aggregated table is not changed or evicted for the rest of the pass, and
\* every pass starts from an empty cache.
C18_CacheReadOnce ==
    /\ [](InDeltasPass =>
            /\ i = 0 => df_cache = EmptyMap
            /\ DOMAIN df_cache = RunsCompared
            /\ \A f \in DOMAIN df_cache :
                  df_cache[f] =
                      GroupByMean(DropColumns(files[f].peptide_fdr, columns_to_drop).df,
                                  "precursor"))
    /\ [][InDeltasPass =>
            /\ \A f \in DOMAIN df_cache :
                  f \in DOMAIN df_cache' /\ df_cache'[f] = df_cache[f]
            /\ {NewReads[k] : k \in 1..Len(NewReads)} =
                  {<<f, "peptide_fdr">> : f \in (DOMAIN df_cache') \ (DOMAIN df_cache)}
            /\ Len(NewReads) = Cardinality((DOMAIN df_cache') \ (DOMAIN df_cache))]_vars

\* C18 witness: in the second pass over three runs two pairs have been
\* compared; the first run was in both of them, and the pass has read three
\* tables (after the three of the first pass and the six of align_files).
C18_Witness ==
    /\ pc = "calculate_deltas_calib"
    /\ i = 2
    /\ Cardinality(DOMAIN df_cache) = 3
    /\ Len(reads) = 3 + 6 + 3

\* the calibrated columns of the dimensions aligned
CalibColumns == {offset_dict[j].col \o "_calib" : j \in 1..Len(offset_dict)}

\* the table new is the table old with calibrated columns added or rewritten
OnlyCalibChanged(old, new) ==
    /\ old.columns \subseteq new.columns
    /\ new.columns \ old.columns \subseteq CalibColumns
    /\ Len(new.rows) = Len(old.rows)
    /\ \A k \in 1..Len(old.rows) : \A c \in old.columns \ CalibColumns :
          new.rows[k][c] = old.rows[k][c]

\* C19: calib_table changes only the '<dim>_calib' columns (created when
\* absent, overwritten when present) and leaves every other column, the raw
\* and apex source columns included, unchanged; a second align_datasets call
\* over the same runs computes the same offsets and writes the same
\* calibrated columns as the first.
C19_CalibIdempotent ==
    /\ [][pc = "align_files" =>
            \A f \in DOMAIN files :
               /\ OnlyCalibChanged(files[f].peptide_fdr, files'[f].peptide_fdr)
               /\ OnlyCalibChanged(files[f].feature_table, files'[f].feature_table)]_vars
    /\ []((ret # None /\ pc \in {"calculate_deltas_calib", "log_change", "done"}) =>
            /\ alignment = ret.alignment
            /\ files = ret.files)

\* C19 witness: a second call over three runs has ended; the offsets were not
\* all zero and the calibrated columns, there since the first call, have been
\* overwritten.
C19_Witness ==
    /\ pc = "done"
    /\ ret # None
    /\ NRuns = 3
    /\ \E k \in 1..NRuns : \A c \in 1..Len(offset_dict) : alignment[k][c] # R(0)
    /\ Len(writes) = 12
    /\ \A f \in DOMAIN files : "rt_calib" \in files[f].feature_table.columns

(***************************************************************************)
(* Further claims about match_datasets (SpecMatch)                         *)
(***************************************************************************)
\* C13 (the claim as stated): the progress callback, when supplied, is
\* invoked once after each matched target run in match_datasets (as it is
\* once after each pairwise comparison in calculate_deltas): it has been
\* called as many times as identification tables have been written.
C13_CallbackAfterEachRun ==
    callback => Len(progress) = Len(writes)

\* the rows of a written table that are not merged matches
OriginalRowsOf(table) == (1..Len(table.rows)) \ MatchedRowsOf(table)

\* C15: for every target run, the precursor keys of the rows merged as
\* 'matched' are pairwise distinct, all belong to the group's reference
\* table, and none of them is the precursor of a row that was already in the
\* run's identification table.
C15_MatchedKeysAreNewCandidates ==
    LastPass =>
        \A k \in MatchedRowsOf(LastTable) :
           /\ LastTable.rows[k]["precursor"] \in DOMAIN grouped
           /\ \A l \in MatchedRowsOf(LastTable) \ {k} :
                 LastTable.rows[l]["precursor"] # LastTable.rows[k]["precursor"]
           /\ \A o \in OriginalRowsOf(LastTable) :
                 LastTable.rows[o]["precursor"] # LastTable.rows[k]["precursor"]

\* C15 witness: a run that had identified one precursor of the reference
\* has received the other one as a match.
C15_Witness ==
    /\ LastPass
    /\ Cardinality(DOMAIN grouped) = 2
    /\ Cardinality(OriginalRowsOf(LastTable)) = 1
    /\ Cardinality(MatchedRowsOf(LastTable)) = 1

\* the table new is the table old with its rows tagged 'msms', in their
\* order and otherwise unchanged, followed by rows tagged 'matched' over the
\* same columns
TaggedAndExtended(old, new) ==
    LET tags == {"type", "matching_p"}
        n    == Len(old.rows)
    IN  /\ new.columns = old.columns \cup tags
        /\ Len(new.rows) >= n
        /\ \A k \in 1..Len(new.rows) : DOMAIN new.rows[k] = new.columns
        /\ \A k \in 1..n :
              /\ new.rows[k]["type"] = "msms"
              /\ IsNaN(new.rows[k]["matching_p"])
              /\ \A c \in old.columns \ tags : new.rows[k][c] = old.rows[k][c]
        /\ \A k \in (n + 1)..Len(new.rows) : new.rows[k]["type"] = "matched"

\* C16: the identification table match_datasets writes for a target run
\* consists of all rows the table had when read, in their original order and
\* unchanged apart from being tagged type 'msms' with an undefined match
\* probability, followed by the accepted matches tagged 'matched' and
\* restricted to the columns that also exist in the identification table; no
\* original row is removed.
C16_OriginalRowsKept ==
    [][Len(writes') > Len(writes) =>
          LET f == writes'[Len(writes')][1]
          IN  TaggedAndExtended(files[f].peptide_fdr, files'[f].peptide_fdr)]_vars

\* C16 witness: a written table holds an original row and a matched row; the
\* matched row has no value in a column only the identifications have, and
\* the feature index of the matched feature is no column of the table.
C16_Witness ==
    /\ LastPass
    /\ "feature_idx" \notin LastTable.columns
    /\ \E o \in OriginalRowsOf(LastTable) : LastTable.rows[o]["q_value"] = R(0)
    /\ \E k \in MatchedRowsOf(LastTable) : IsNaN(LastTable.rows[k]["q_value"])

\* a table as it was before match_datasets wrote it: without the tag
\* columns and without the rows merged as matches, which follow the others
TableBeforeCall(table) ==
    IF "type" \notin table.columns THEN table
    ELSE [columns |-> table.columns \ {"type", "matching_p"},
          rows |-> [k \in 1..Cardinality(OriginalRowsOf(table)) |->
                      [c \in table.columns \ {"type", "matching_p"} |->
                          table.rows[k][c]]]]

FilesBeforeCall ==
    [f \in DOMAIN files |->
        [peptide_fdr |-> TableBeforeCall(files[f].peptide_fdr),
         feature_table |-> files[f].feature_table]]

\* C17: the identification table match_datasets writes for a target run does
\* not depend on the order in which groups and target runs are processed:
\* the reference of every group is built only from the identifications as
\* they were before the call wrote any table, never from rows transferred
\* earlier in the same call; the table of a target run is read unwritten, and
\* what is written is computed from that table, the run's features and that
\* reference.
C17_ReferenceFromCallStart ==
    /\ pc = "match_files" =>
          LET xx == SourceRows(assemble_df(settings, FilesBeforeCall, 1), files_from)
              target == MsDataFile(shortnames_lookup(settings)[files_to[to_pos + 1]])
          IN  /\ grouped = ReferenceTable(xx)
              /\ std_ = StdTable(xx)
              /\ std_range = StdRange(StdTable(xx))
              /\ lookup_dict = LookupDict(xx)
              /\ "type" \notin files[target].peptide_fdr.columns
    /\ LastPass =>
          LastTable = MatchedFrame(TableBeforeCall(LastTable), LastFeatures,
                                   matching_set, query,
                                   settings.match_d_min, settings.match_p_min)

\* C17 witness: the reference of a second group has been built after a source
\* run of that group received a match in the pass of an earlier group.
C17_Witness ==
    /\ pc = "match_files"
    /\ to_pos = 0
    /\ \E w \in 1..Len(writes) :
          /\ MatchedRowsOf(files[writes[w][1]].peptide_fdr) # {}
          /\ \E k \in 1..Len(settings.file_paths) :
                /\ MsDataFile(settings.file_paths[k]) = writes[w][1]
                /\ settings.shortnames[k] \in Range(files_from)

\* how often the table dataset of data file f has been written
TimesWritten(f, dataset) ==
    Cardinality({k \in 1..Len(writes) : writes[k] = <<f, dataset>>})

\* every run is a target of exactly one group of the loop (entered with more
\* than 2 runs), no table is written twice and no feature table is written
\* at all
WrittenAtMostOnce ==
    /\ Len(settings.file_paths) > 2 =>
          \A k \in 1..Len(settings.file_paths) :
             Cardinality({g \in Range(settings.matching_group) :
                             file_index_to(settings.matching_group, g)[k]}) = 1
    /\ \A f \in DOMAIN files :
          /\ TimesWritten(f, "peptide_fdr") <= 1
          /\ TimesWritten(f, "feature_table") = 0

\* C20 (the claim as stated): in one match_datasets call over runs with
\* distinct short names each run is a target of exactly one matching group,
\* so its identification table is written at most once, and exactly once by
\* the end of the call when its group has at least 3 source runs and the
\* experiment has more than 2 runs; no feature table is ever written.
C20_EachRunWrittenOnce ==
    /\ pc \in {"match_groups", "match_files", "done", "error"} => WrittenAtMostOnce
    /\ pc \in {"done", "error"} =>
          \A k \in 1..Len(settings.file_paths) :
             (/\ Len(settings.file_paths) > 2
              /\ Cardinality(SourceRunsOfGroup(settings.matching_group[k])) >= 3)
             => TimesWritten(MsDataFile(settings.file_paths[k]), "peptide_fdr") = 1

=============================================================================
